---- MODULE Spec2Model ----
(***************************************************************************)
(* Model of the workflow orchestration and approval scoring of             *)
(* ocean_analysis:                                                         *)
(*   - SupervisorAgent.review_report / _determine_approval_status          *)
(*     (agents/supervisor_agent.py), with Python float arithmetic modelled *)
(*     as IEEE-754 binary64 round-to-nearest-even;                         *)
(*   - WorkflowManager.execute_workflow / _execute_agent                   *)
(*     (core/agent_orchestrator.py) over the asyncio scheduling of its     *)
(*     coroutines;                                                         *)
(*   - SupervisorAgent.initialize_workflow / coordinate_analysis /         *)
(*     provide_feedback (agents/supervisor_agent.py);                      *)
(*   - AgentCoordinator.run_with_timeout / coordinate_analysis             *)
(*     (tests/test_multiagent_system.py) over the process's SIGALRM timer. *)
(***************************************************************************)
EXTENDS Integers, Naturals, Sequences, FiniteSets, TLC

VARIABLES
    \* ---- SupervisorAgent (agents/supervisor_agent.py) ----
    report_reviews,      \* self.report_reviews: the ReviewResults appended so far
    rv_pc,               \* where the running review_report call is suspended
    user_feedback,       \* review_report's argument user_feedback
    auto_review,         \* local auto_review (the numerator of its score)
    quality_evaluation,  \* local quality_evaluation (the numerator of its score)
    review_results,      \* local review_results, the dict under construction
    scores               \* locals of the last _determine_approval_status call

review_vars == <<report_reviews, rv_pc, user_feedback, auto_review,
                 quality_evaluation, review_results, scores>>

VARIABLES
    \* ---- AgentOrchestrator, WorkflowManager (core/agent_orchestrator.py) ----
    workflow,        \* orchestrator.workflow['stages']
    dependencies,    \* orchestrator.dependencies
    current_stage,   \* self.current_stage
    stage_results,   \* self.stage_results: stage name -> list of results
    input_data,      \* the dict input_data that execute_workflow was called with
    wf_pc,           \* where the execute_workflow coroutine is
    stage_idx,       \* position of the "for stage in ..." loop
    agent_idx,       \* position of the "for agent in ..." loop
    results,         \* local results of the sequential branch
    unit_pc,         \* where each unit's _execute_agent coroutine is
    unit_result,     \* local results of each unit's _execute_agent
    unit_input,      \* the contents of input_data each _execute_agent was started with
    merged,          \* the units whose output has been merged into input_data
    wf_error,        \* the exception execute_workflow raises (or is about to)
    invoked,         \* how many times each unit's agent.analyze has been called
    feedback         \* local feedback of each unit's _execute_agent

workflow_vars == <<workflow, dependencies, current_stage, stage_results, input_data,
                   wf_pc, stage_idx, agent_idx, results, unit_pc, unit_result,
                   unit_input, merged, wf_error, invoked, feedback>>

VARIABLES
    \* ---- SupervisorAgent: the run it coordinates and its feedback ----
    workflow_status,   \* self.workflow_status
    feedback_history,  \* self.feedback_history: the FeedbackRecords appended so far
    now,               \* the clock that datetime.now() reads
    sup_pc,            \* "constructed", "ready", "coordinating" or "finished"
    phase,             \* which _coordinate_* call of coordinate_analysis is awaited
    phases_done,       \* the stages whose _coordinate_* call has returned
    coord_outcome      \* what coordinate_analysis handed to its caller

supervisor_vars == <<workflow_status, feedback_history, now, sup_pc, phase,
                     phases_done, coord_outcome>>

VARIABLES
    \* ---- AgentCoordinator (tests/test_multiagent_system.py) ----
    clock,          \* time.time(), in ticks of 15 seconds
    alarm,          \* when the process's pending SIGALRM is due (0: none pending)
    co_entry,       \* the call the caller makes on the coordinator
    co_pc,          \* where that call is
    co_start_time,  \* self.start_time
    co_results,     \* local results of coordinate_analysis / what gather returned
    tc_pc,          \* where each unit's run_with_timeout call is
    tc_start,       \* local start_time of each run_with_timeout call
    tc_result       \* the AgentResult each run_with_timeout call returned

coordinator_vars == <<clock, alarm, co_entry, co_pc, co_start_time, co_results,
                      tc_pc, tc_start, tc_result>>

VARIABLES
    \* ---- SupervisorAgent.verify_outputs ----
    output_dir,     \* the paths that exist under output_dir
    vo_pc,          \* where the verify_outputs call is
    vo_file,        \* position of the "for file in required_files" loop
    missing_files,  \* local missing_files
    vo_warnings,    \* what self.logger.warning was called with
    vo_return       \* the value verify_outputs returned

verifier_vars == <<output_dir, vo_pc, vo_file, missing_files, vo_warnings, vo_return>>

VARIABLES
    \* ---- AgentOrchestrator.communication_channels and the protocol ----
    communication_channels,  \* self.communication_channels: the queue of each channel
    handed,                  \* per channel, the messages handed to it for sending
    dequeued,                \* per channel, the messages its get() calls returned
    send_error               \* the exception the last send_message call raised

channel_vars == <<communication_channels, handed, dequeued, send_error>>

VARIABLES
    \* ---- SupervisorAgent.initialize_workflow, step by step ----
    initializable,     \* the agents that have an initialize method
    configurable,      \* the agents that have a configure method and a config dict
    data_path_exists,  \* data_path.exists()
    iw_pc,             \* where the initialize_workflow call is
    iw_agent,          \* position of the "for agent_name, agent in self.agents.items()" loop
    initialize_calls,  \* how many times each agent's initialize has been called
    iw_error           \* the exception initialize_workflow raised

setup_vars == <<initializable, configurable, data_path_exists, iw_pc, iw_agent,
                initialize_calls, iw_error>>

\* the objects explored by specifications of their own
utility_vars == <<verifier_vars, channel_vars, setup_vars>>

vars == <<review_vars, workflow_vars, supervisor_vars, coordinator_vars, utility_vars>>

\* Scores are drawn from the grid 0/ScoreDen, 1/ScoreDen, ..., ScoreDen/ScoreDen.
ScoreDen == 10
\* review_report calls made in one behaviour
MaxReviews == 1
\* provide_feedback calls made in one behaviour
MaxFeedback == 2
\* messages handed to the channels in one behaviour
MaxMessages == 3
\* the clock runs from 0 to MaxNow
MaxNow == 1
\* the coordinator's clock runs from 0 to MaxClock
MaxClock == 7
\* the clock of a coordinated run followed against the global budget
MaxRunNow == 3

(***************************************************************************)
(* Natural numbers of arbitrary size: little-endian sequences of limbs in  *)
(* base 2^15, without leading zero limbs (<< >> is zero).  They carry the  *)
(* 53-bit significands of Python floats and their 106-bit products.        *)
(***************************************************************************)
LimbBits == 15

RECURSIVE Pow2(_)
Pow2(n) == IF n = 0 THEN 1 ELSE 2 * Pow2(n - 1)

Base == Pow2(LimbBits)

RECURSIVE BNorm(_)
BNorm(a) ==
    IF a = << >> THEN << >>
    ELSE IF a[Len(a)] = 0 THEN BNorm(SubSeq(a, 1, Len(a) - 1))
    ELSE a

RECURSIVE BAddC(_, _, _)
BAddC(a, b, c) ==
    IF a = << >> /\ b = << >> THEN (IF c = 0 THEN << >> ELSE <<c>>)
    ELSE LET x == IF a = << >> THEN 0 ELSE Head(a)
             y == IF b = << >> THEN 0 ELSE Head(b)
             s == x + y + c
         IN  <<s % Base>> \o BAddC(IF a = << >> THEN << >> ELSE Tail(a),
                                   IF b = << >> THEN << >> ELSE Tail(b),
                                   s \div Base)

BAdd(a, b) == BAddC(a, b, 0)

RECURSIVE BMulSmallC(_, _, _)
BMulSmallC(a, d, c) ==
    IF a = << >> THEN (IF c = 0 THEN << >> ELSE <<c>>)
    ELSE LET p == Head(a) * d + c
         IN  <<p % Base>> \o BMulSmallC(Tail(a), d, p \div Base)

\* a * d for one limb d (0 <= d < Base)
BMulSmall(a, d) == IF d = 0 THEN << >> ELSE BMulSmallC(a, d, 0)

RECURSIVE BMul(_, _)
BMul(a, b) ==
    IF a = << >> \/ b = << >> THEN << >>
    ELSE LET hi == BMul(a, Tail(b))
         IN  BAdd(BMulSmall(a, Head(b)), IF hi = << >> THEN << >> ELSE <<0>> \o hi)

\* quotient and remainder of a by a small d (0 < d <= Base)
RECURSIVE BDivRem(_, _)
BDivRem(a, d) ==
    IF a = << >> THEN [q |-> << >>, r |-> 0]
    ELSE LET hi  == BDivRem(Tail(a), d)
             cur == hi.r * Base + Head(a)
         IN  [q |-> BNorm(<<cur \div d>> \o hi.q), r |-> cur % d]

RECURSIVE BCmpFrom(_, _, _)
BCmpFrom(a, b, i) ==
    IF i = 0 THEN 0
    ELSE IF a[i] < b[i] THEN -1
    ELSE IF a[i] > b[i] THEN 1
    ELSE BCmpFrom(a, b, i - 1)

\* -1, 0, 1 as a < b, a = b, a > b
BCmp(a, b) ==
    IF Len(a) < Len(b) THEN -1
    ELSE IF Len(a) > Len(b) THEN 1
    ELSE BCmpFrom(a, b, Len(a))

RECURSIVE BitLenSmall(_)
BitLenSmall(n) == IF n = 0 THEN 0 ELSE 1 + BitLenSmall(n \div 2)

BBitLen(a) ==
    IF a = << >> THEN 0 ELSE LimbBits * (Len(a) - 1) + BitLenSmall(a[Len(a)])

Zeros(n) == [i \in 1..n |-> 0]

\* a * 2^n
BShl(a, n) ==
    IF a = << >> THEN << >>
    ELSE Zeros(n \div LimbBits) \o BMulSmall(a, Pow2(n % LimbBits))

\* floor(a / 2^n)
BShr(a, n) ==
    IF n \div LimbBits >= Len(a) THEN << >>
    ELSE BDivRem(SubSeq(a, (n \div LimbBits) + 1, Len(a)), Pow2(n % LimbBits)).q

BIsOdd(a) == a # << >> /\ a[1] % 2 = 1

BOne == <<1>>

\* The bits of a below position n, compared with the half-way pattern 2^(n-1):
\* -1 below half, 0 exactly half, 1 above half (n >= 1).
BTailVsHalf(a, n) ==
    LET q    == BShr(a, n - 1)
        sure == BCmp(BShl(q, n - 1), a) # 0
    IN  IF ~BIsOdd(q) THEN -1
        ELSE IF sure THEN 1
        ELSE 0

(***************************************************************************)
(* Python floats (IEEE-754 binary64) that are zero or positive and normal: *)
(* the value of [m |-> m, e |-> e] is m * 2^e, with m a 53-bit significand *)
(* (2^52 <= m < 2^53), or m = << >> for 0.0.  All scores, weights and      *)
(* thresholds of the review lie between 2^-20 and 2, far from the          *)
(* subnormal and overflow ranges, which are therefore not modelled.        *)
(***************************************************************************)
MantBits == 53

FZero == [m |-> << >>, e |-> 0]

\* The float nearest to M * 2^e, ties to even (the rounding of every float
\* operation and of the reading of a decimal literal).
FRound(M, e) ==
    IF M = << >> THEN FZero
    ELSE LET L == BBitLen(M)
         IN  IF L <= MantBits
             THEN [m |-> BShl(M, MantBits - L), e |-> e - (MantBits - L)]
             ELSE LET s  == L - MantBits
                      q  == BShr(M, s)
                      t  == BTailVsHalf(M, s)
                      up == t = 1 \/ (t = 0 /\ BIsOdd(q))
                      r  == IF up THEN BAdd(q, BOne) ELSE q
                  IN  IF BBitLen(r) > MantBits
                      THEN [m |-> BShr(r, 1), e |-> e + s + 1]
                      ELSE [m |-> r, e |-> e + s]

\* x * y
FMul(x, y) ==
    IF x.m = << >> \/ y.m = << >> THEN FZero
    ELSE FRound(BMul(x.m, y.m), x.e + y.e)

MinOf(i, j) == IF i <= j THEN i ELSE j

\* x + y
FAdd(x, y) ==
    IF x.m = << >> THEN y
    ELSE IF y.m = << >> THEN x
    ELSE LET e == MinOf(x.e, y.e)
         IN  FRound(BAdd(BShl(x.m, x.e - e), BShl(y.m, y.e - e)), e)

\* -1, 0, 1 as x < y, x = y, x > y
FCmp(x, y) ==
    IF x.m = << >> THEN (IF y.m = << >> THEN 0 ELSE -1)
    ELSE IF y.m = << >> THEN 1
    ELSE LET e == MinOf(x.e, y.e)
         IN  BCmp(BShl(x.m, x.e - e), BShl(y.m, y.e - e))

\* x >= y
FGe(x, y) == FCmp(x, y) >= 0

\* The float that the decimal literal (or true division) n/d denotes: the
\* correctly rounded quotient (0 <= n < 2^15, 0 < d <= 2^15).  The quotient is
\* taken to 80 fractional bits and one sticky bit stands for its remainder.
Float(n, d) ==
    IF n = 0 THEN FZero
    ELSE LET dr == BDivRem(BShl(<<n>>, 80), d)
             M  == BAdd(BShl(dr.q, 1), IF dr.r # 0 THEN BOne ELSE << >>)
         IN  FRound(M, -81)

(***************************************************************************)
(* SupervisorAgent._determine_approval_status                              *)
(***************************************************************************)
\* quality_threshold = 0.8
quality_threshold == Float(8, 10)

\* the literals 0.4, 0.2 and 1.0
Lit_0_4 == Float(4, 10)
Lit_0_2 == Float(2, 10)
Lit_1_0 == Float(1, 1)

\* a score that drops the weight of the user feedback
FinalScoreUnweightedUser(auto_score, quality_score, user_score) ==
    FAdd(FAdd(FMul(auto_score, Lit_0_4), FMul(quality_score, Lit_0_4)), user_score)

\* final_score = (auto_score * 0.4 + quality_score * 0.4 + user_score * 0.2)
FinalScore(auto_score, quality_score, user_score) ==
    FAdd(FAdd(FMul(auto_score, Lit_0_4), FMul(quality_score, Lit_0_4)),
         FMul(user_score, Lit_0_2))

\* quality_threshold * 0.8, the bound of the elif
minor_threshold == FMul(quality_threshold, Float(8, 10))

\* an if / elif whose two upper verdicts are swapped
ApprovalSwapped(final_score) ==
    IF FGe(final_score, quality_threshold) THEN "needs_minor_revision"
    ELSE IF FGe(final_score, minor_threshold) THEN "approved"
    ELSE "needs_major_revision"

\* a review whose approval status is left as it was initialised
ApprovalLeftPending(final_score) == "pending"

\* the if / elif / else on final_score
ApprovalOf(final_score) ==
    IF FGe(final_score, quality_threshold) THEN "approved"
    ELSE IF FGe(final_score, minor_threshold) THEN "needs_minor_revision"
    ELSE "needs_major_revision"

\* user_feedback: Optional[Dict].  None, the empty dict {} and non-empty dicts;
\* a non-empty dict carries the numerator of the score derived from it.
NoFeedback == [kind |-> "None", rating |-> 0]
EmptyFeedback == [kind |-> "{}", rating |-> 0]
UserFeedbacks ==
    {NoFeedback, EmptyFeedback} \cup {[kind |-> "dict", rating |-> k] : k \in 0..ScoreDen}

\* Python truth value of user_feedback ("if user_feedback:"): None and {} are false
Truthy(uf) == uf.kind = "dict"

\* _calculate_auto_review_score, _calculate_quality_score,
\* _calculate_user_feedback_score: a score normalised to [0,1]
CalculateScore(k) == Float(k, ScoreDen)

\* a user score that never looks at the feedback
UserScoreIgnoringFeedback(uf) == Lit_1_0

\* user_score = 1.0; if user_feedback: user_score = <score of the feedback>
UserScoreOf(uf) ==
    IF Truthy(uf) THEN CalculateScore(uf.rating) ELSE Lit_1_0

\* the locals of _determine_approval_status(auto_review, quality_eval, user_feedback)
\* at its return, with the value returned
DetermineApprovalStatus(ar, qe, uf) ==
    LET auto_score    == CalculateScore(ar)
        quality_score == CalculateScore(qe)
        user_score    == UserScoreOf(uf)
        final_score   == FinalScore(auto_score, quality_score, user_score)
    IN  [auto_score |-> auto_score, quality_score |-> quality_score,
         user_score |-> user_score, final_score |-> final_score,
         approval_status |-> ApprovalOf(final_score)]

NoScores == [auto_score |-> FZero, quality_score |-> FZero, user_score |-> FZero,
             final_score |-> FZero, approval_status |-> "none"]

NoReview == [status |-> "none", approval_status |-> "none", user_feedback |-> FALSE]

(***************************************************************************)
(* SupervisorAgent.review_report, one action per stretch between awaits.   *)
(* A ReviewResult keeps the fields the verdict logic writes: status,       *)
(* approval_status and whether the key 'user_feedback' was set; timestamp, *)
(* feedback, recommendations and the review payloads are opaque.           *)
(***************************************************************************)
ReviewInit ==
    /\ report_reviews = << >>
    /\ rv_pc = "idle"
    /\ user_feedback = NoFeedback
    /\ auto_review = 0
    /\ quality_evaluation = 0
    /\ review_results = NoReview
    /\ scores = NoScores

\* review_report is called: review_results = {..., 'status': 'pending',
\* 'approval_status': 'pending'}; await self._perform_automated_review(...)
ReviewReportCall(uf) ==
    /\ rv_pc = "idle"
    /\ Len(report_reviews) < MaxReviews
    /\ user_feedback' = uf
    /\ review_results' = [status |-> "pending", approval_status |-> "pending",
                          user_feedback |-> FALSE]
    /\ auto_review' = 0
    /\ quality_evaluation' = 0
    /\ scores' = NoScores
    /\ rv_pc' = "automated_review"
    /\ UNCHANGED report_reviews

\* the automated review returns; "if user_feedback:" stores the feedback;
\* await self._evaluate_report_quality(...)
AutomatedReviewDone(a) ==
    /\ rv_pc = "automated_review"
    /\ auto_review' = a
    /\ review_results' = [review_results EXCEPT !.user_feedback = Truthy(user_feedback)]
    /\ rv_pc' = "quality_evaluation"
    /\ UNCHANGED <<report_reviews, user_feedback, quality_evaluation, scores>>

\* the quality evaluation returns; recommendations, _determine_approval_status,
\* self.report_reviews.append(review_results); return review_results
QualityEvaluationDone(q) ==
    /\ rv_pc = "quality_evaluation"
    /\ quality_evaluation' = q
    /\ scores' = DetermineApprovalStatus(auto_review, q, user_feedback)
    /\ review_results' = [review_results EXCEPT !.approval_status = scores'.approval_status]
    /\ report_reviews' = Append(report_reviews, review_results')
    /\ rv_pc' = "idle"
    /\ UNCHANGED <<user_feedback, auto_review>>

\* a review_report call has returned and its locals are still in view
Reviewed == rv_pc = "idle" /\ report_reviews # << >>

(***************************************************************************)
(* Claims about the approval verdict (checked under ReviewSpec)            *)
(***************************************************************************)
\* the literals 0.64, 0.92, 0.9 and 0.7 of the claims
Lit_0_64 == Float(64, 100)
Lit_0_92 == Float(92, 100)
Lit_0_9 == Float(9, 10)
Lit_0_7 == Float(7, 10)

\* The verdict the thresholds 0.8 and 0.64 give, both inclusive.
VerdictByThresholds(fs) ==
    IF FGe(fs, quality_threshold) THEN "approved"
    ELSE IF FGe(fs, Lit_0_64) THEN "needs_minor_revision"
    ELSE "needs_major_revision"

\* C1: for every final_score the verdict is approved from 0.8 up,
\* needs_minor_revision from 0.64 up to 0.8, needs_major_revision below, both
\* boundaries inclusive: a final_score of exactly 0.64 is needs_minor_revision.
C1_VerdictThresholdsInclusive ==
    Reviewed => scores.approval_status = VerdictByThresholds(scores.final_score)

\* The numerator of the user score: the rating of the feedback, or 1.0 for none.
UserNumerator == IF Truthy(user_feedback) THEN user_feedback.rating ELSE ScoreDen

\* The exact weighted sum 0.4*a + 0.4*q + 0.2*u of the last review is
\* WeightedNumerator / WeightedDenominator.
WeightedNumerator == 4 * auto_review + 4 * quality_evaluation + 2 * UserNumerator
WeightedDenominator == 10 * ScoreDen

\* C2 as stated: the score compared against the thresholds is exactly
\* 0.4*auto_score + 0.4*quality_score + 0.2*user_score (the float that this
\* number denotes), so that (0.9, 0.9, 1.0) gives 0.92.
C2_ScoreIsExactWeightedSum ==
    Reviewed => scores.final_score = Float(WeightedNumerator, WeightedDenominator)

\* | fs - n/d | <= 2^-51, for a float fs < 2 and small naturals n, d
WithinRounding(fs, n, d) ==
    IF fs.m = << >> THEN n = 0
    ELSE LET x == BMulSmall(fs.m, d)
             y == IF n = 0 THEN << >> ELSE BShl(<<n>>, -fs.e)
             t == BShl(<<d>>, (-fs.e) - 51)
         IN  BCmp(x, BAdd(y, t)) <= 0 /\ BCmp(y, BAdd(x, t)) <= 0

\* C2 (amended): the score compared against the thresholds is the float value of
\* (auto_score * 0.4 + quality_score * 0.4) + user_score * 0.2, each operation
\* rounded; it lies within 2^-51 of the exact weighted sum.  (0.9, 0.9, 1.0)
\* gives 0.9200000000000002 (one unit in the last place above 0.92) and
\* approved; (0.7, 0.7, 0.7) gives 0.7 and needs_minor_revision.
C2_ScoreIsRoundedWeightedSum ==
    Reviewed =>
        /\ WithinRounding(scores.final_score, WeightedNumerator, WeightedDenominator)
        /\ (/\ scores.auto_score = Lit_0_9
            /\ scores.quality_score = Lit_0_9
            /\ scores.user_score = Lit_1_0)
           => /\ scores.final_score = [Lit_0_92 EXCEPT !.m = BAdd(@, BOne)]
              /\ scores.approval_status = "approved"
        /\ (/\ scores.auto_score = Lit_0_7
            /\ scores.quality_score = Lit_0_7
            /\ scores.user_score = Lit_0_7)
           => /\ scores.final_score = Lit_0_7
              /\ scores.approval_status = "needs_minor_revision"

\* a review of (0.9, 0.9, no feedback) has returned: approved on a score that
\* is not the float 0.92
C2_Witness ==
    /\ Reviewed
    /\ scores.auto_score = Lit_0_9
    /\ scores.quality_score = Lit_0_9
    /\ scores.user_score = Lit_1_0
    /\ scores.final_score # Lit_0_92
    /\ scores.approval_status = "approved"

\* a non-empty feedback whose derived score is exactly 1.0
FullMarks == [kind |-> "dict", rating |-> ScoreDen]

\* C3: with no user feedback user_score is 1.0 and the verdict is the one the
\* same review gets with a feedback scoring exactly 1.0; with user feedback,
\* user_score is the score derived from it.  (None and the empty dict are both
\* "no feedback" to the truth test of the code.)
C3_UserScoreDefault ==
    Reviewed =>
        /\ ~Truthy(user_feedback) =>
              /\ scores.user_score = Lit_1_0
              /\ scores.approval_status =
                    DetermineApprovalStatus(auto_review, quality_evaluation,
                                            FullMarks).approval_status
        /\ Truthy(user_feedback) =>
              scores.user_score = CalculateScore(user_feedback.rating)

\* a review without feedback has returned a verdict that a user score below
\* 1.0 would have lowered: (0.8, 0.8, none) is approved, (0.8, 0.8, 0.0) is not
C3_Witness ==
    /\ Reviewed
    /\ user_feedback = NoFeedback
    /\ scores.user_score = Lit_1_0
    /\ scores.approval_status = "approved"
    /\ DetermineApprovalStatus(auto_review, quality_evaluation,
                               [kind |-> "dict", rating |-> 0]).approval_status
          # "approved"

(***************************************************************************)
(* AgentOrchestrator: the units, the dependency map and the stage list     *)
(***************************************************************************)
Units == {"parser", "qa", "analyst", "water_mass", "stats", "report"}

\* a map in which the parser waits for the report
CyclicDependencies ==
    ("parser" :> {"report"}) @@
    ("qa" :> {"parser"}) @@
    ("analyst" :> {"parser", "qa"}) @@
    ("water_mass" :> {"parser", "qa", "analyst"}) @@
    ("stats" :> {"parser", "qa", "analyst"}) @@
    ("report" :> {"parser", "qa", "analyst", "water_mass", "stats"})

\* self.dependencies of AgentOrchestrator.__init__
BuiltinDependencies ==
    ("parser" :> {}) @@
    ("qa" :> {"parser"}) @@
    ("analyst" :> {"parser", "qa"}) @@
    ("water_mass" :> {"parser", "qa", "analyst"}) @@
    ("stats" :> {"parser", "qa", "analyst"}) @@
    ("report" :> {"parser", "qa", "analyst", "water_mass", "stats"})

\* self.workflow['stages'] of AgentOrchestrator.setup_workflow
BuiltinStages ==
    << [name |-> "data_processing", agents |-> <<"parser", "qa">>, parallel |-> FALSE],
       [name |-> "analysis", agents |-> <<"analyst", "water_mass", "stats">>,
        parallel |-> TRUE],
       [name |-> "reporting", agents |-> <<"report">>, parallel |-> FALSE] >>

Range(f) == {f[i] : i \in DOMAIN f}

\* the orders in which the members of a stage can be listed
OrdersOf(agents) ==
    {p \in [DOMAIN agents -> Range(agents)] : Range(p) = Range(agents)}

\* The workflows executed: the built-in stage list, and the same stages with
\* the members of the parallel stage listed (hence started) in another order.
Workflows ==
    {[BuiltinStages EXCEPT ![2].agents = p] : p \in OrdersOf(BuiltinStages[2].agents)}

\* the units of the sequential stages that precede the first parallel stage
RECURSIVE LeadingSequentialUnits(_)
LeadingSequentialUnits(stages) ==
    IF stages = << >> \/ Head(stages).parallel THEN {}
    ELSE Range(Head(stages).agents) \cup LeadingSequentialUnits(Tail(stages))

\* The dependency maps executed: the built-in map, and the built-in map cut
\* down to the dependencies whose outputs execute_workflow merges into
\* input_data (those on units of the leading sequential stages).
DependencyMaps ==
    {BuiltinDependencies,
     [u \in Units |-> BuiltinDependencies[u] \cap LeadingSequentialUnits(BuiltinStages)]}

\* position of the stage that holds unit u
StageOf(u) == CHOOSE i \in DOMAIN workflow : u \in Range(workflow[i].agents)

\* position of unit u in its stage
PlaceOf(u) ==
    CHOOSE j \in DOMAIN workflow[StageOf(u)].agents : workflow[StageOf(u)].agents[j] = u

(***************************************************************************)
(* Dicts and the payloads of the units.  A unit is opaque: its result is a *)
(* dict with the unit's own keys, each value tagged with the unit that     *)
(* made it and with whether the supervisor's corrections were applied.     *)
(***************************************************************************)
Payload(u, c) == [by |-> u, corrected |-> c]

OutKeys(u) ==
    CASE u = "parser" -> {"temperature", "metadata"}
      [] u = "qa" -> {"clean_data", "stats"}
      [] u = "analyst" -> {"statistics", "visualizations"}
      [] u = "water_mass" -> {"water_masses", "figures"}
      [] u = "stats" -> {"basic_stats", "summary"}
      [] u = "report" -> {"report_path"}

\* the dict a unit's analyze returns, and the dict after corrections
OutputOf(u, c) == [k \in OutKeys(u) |-> Payload(u, c)]

EmptyDict == [k \in {} |-> Payload("caller", FALSE)]

\* the input_data the caller passes to execute_workflow
InitialInput == [k \in {"data_path", "metadata"} |-> Payload("caller", FALSE)]

\* a dict.update that keeps the entries already present
DictUpdateKeepingOld(d, r) ==
    [k \in DOMAIN d \cup DOMAIN r |-> IF k \in DOMAIN d THEN d[k] ELSE r[k]]

\* d.update(r): the entries of r replace or extend those of d
DictUpdate(d, r) ==
    [k \in DOMAIN d \cup DOMAIN r |-> IF k \in DOMAIN r THEN r[k] ELSE d[k]]

\* a merge that drops the result
NoMerge(d, r) == d

\* input_data.update(result) of the sequential branch
MergeResult(d, r) == DictUpdate(d, r)

\* every entry of r is an entry of d
Contains(d, r) == \A k \in DOMAIN r : k \in DOMAIN d /\ d[k] = r[k]

\* a stage whose flag is ignored
NeverParallel(stage) == FALSE

\* stage['parallel']
IsParallel(stage) == stage.parallel

NoError == [unit |-> "none", kind |-> "none"]

\* _check_dependencies: every declared dependency has its output in input_data
DependenciesPresent(u) == dependencies[u] \subseteq merged

Executing == {"started", "analyzing", "feedback", "correcting"}

\* the dict _request_supervisor_feedback returns, and the local before it
Feedback(needs_correction) == [received |-> TRUE, needs_correction |-> needs_correction]
NoFeedbackYet == [received |-> FALSE, needs_correction |-> FALSE]

\* an _execute_agent that returns the results as analyze made them
SkipCorrections(fb) == "done"

\* "if feedback['needs_correction']: results = await self._apply_corrections(...)"
\* and then "return results"
AfterFeedback(fb) == IF fb.needs_correction THEN "correcting" ELSE "done"

(***************************************************************************)
(* WorkflowManager.execute_workflow and _execute_agent, one action per     *)
(* stretch of code between two awaits.                                     *)
(***************************************************************************)
WorkflowInit ==
    /\ workflow \in Workflows
    /\ dependencies \in DependencyMaps
    /\ current_stage = "None"
    /\ stage_results = [n \in {} |-> << >>]
    /\ input_data = InitialInput
    /\ wf_pc = "for_stage"
    /\ stage_idx = 1
    /\ agent_idx = 0
    /\ results = << >>
    /\ unit_pc = [u \in Units |-> "pending"]
    /\ unit_result = [u \in Units |-> EmptyDict]
    /\ unit_input = [u \in Units |-> EmptyDict]
    /\ merged = {}
    /\ wf_error = NoError
    /\ invoked = [u \in Units |-> 0]
    /\ feedback = [u \in Units |-> NoFeedbackYet]

\* "for stage in ...": a parallel stage.  One coroutine per member is created
\* on the same input_data and asyncio.gather schedules them all.
LaunchParallelStage ==
    /\ wf_pc = "for_stage"
    /\ stage_idx <= Len(workflow)
    /\ IsParallel(workflow[stage_idx])
    /\ current_stage' = workflow[stage_idx].name
    /\ unit_pc' = [u \in Units |->
                     IF u \in Range(workflow[stage_idx].agents) THEN "started"
                     ELSE unit_pc[u]]
    /\ unit_input' = [u \in Units |->
                        IF u \in Range(workflow[stage_idx].agents) THEN input_data
                        ELSE unit_input[u]]
    /\ wf_pc' = "gather"
    /\ UNCHANGED <<feedback, invoked, workflow, dependencies, stage_results, input_data, stage_idx,
                   agent_idx, results, unit_result, merged, wf_error>>

\* "for stage in ...": a sequential stage.  results = []; the first member's
\* _execute_agent is awaited.
EnterSequentialStage ==
    /\ wf_pc = "for_stage"
    /\ stage_idx <= Len(workflow)
    /\ ~IsParallel(workflow[stage_idx])
    /\ current_stage' = workflow[stage_idx].name
    /\ results' = << >>
    /\ agent_idx' = 1
    /\ unit_pc' = [unit_pc EXCEPT ![workflow[stage_idx].agents[1]] = "started"]
    /\ unit_input' = [unit_input EXCEPT ![workflow[stage_idx].agents[1]] = input_data]
    /\ wf_pc' = "await_agent"
    /\ UNCHANGED <<feedback, invoked, workflow, dependencies, stage_results, input_data, stage_idx,
                   unit_result, merged, wf_error>>

\* a unit whose exception never reaches execute_workflow by itself
NeverInline(u) == FALSE

\* the unit of a sequential stage runs inside execute_workflow's own coroutine
Inline(u) == ~IsParallel(workflow[StageOf(u)])

\* a failure after which the unit is run again
FailAndRetry(u, kind) ==
    /\ unit_pc' = [unit_pc EXCEPT ![u] = "started"]
    /\ UNCHANGED <<wf_error, wf_pc>>

\* An exception leaves _execute_agent(u).  Inline it leaves execute_workflow
\* too; in a task it is kept for gather, which passes on the first one it sees.
Fail(u, kind) ==
    /\ unit_pc' = [unit_pc EXCEPT ![u] = "failed"]
    /\ wf_error' = IF wf_error = NoError THEN [unit |-> u, kind |-> kind] ELSE wf_error
    /\ wf_pc' = IF Inline(u) THEN "raised" ELSE wf_pc

\* await self._check_dependencies(agent_name); get_agent; agent.analyze(input_data)
\* is called
CheckDependencies(u) ==
    /\ unit_pc[u] = "started"
    /\ IF DependenciesPresent(u)
       THEN /\ unit_pc' = [unit_pc EXCEPT ![u] = "analyzing"]
            /\ invoked' = [invoked EXCEPT ![u] = @ + 1]
            /\ UNCHANGED <<wf_error, wf_pc>>
       ELSE Fail(u, "MissingDependencyError") /\ UNCHANGED invoked
    /\ UNCHANGED <<feedback, workflow, dependencies, current_stage, stage_results, input_data,
                   stage_idx, agent_idx, results, unit_result, unit_input, merged>>

\* agent.analyze returns its result; the supervisor's feedback is requested
AnalyzeReturns(u) ==
    /\ unit_pc[u] = "analyzing"
    /\ unit_pc' = [unit_pc EXCEPT ![u] = "feedback"]
    /\ unit_result' = [unit_result EXCEPT ![u] = OutputOf(u, FALSE)]
    /\ UNCHANGED <<feedback, invoked, workflow, dependencies, current_stage, stage_results, input_data,
                   wf_pc, stage_idx, agent_idx, results, unit_input, merged, wf_error>>

\* agent.analyze raises
AnalyzeRaises(u) ==
    /\ unit_pc[u] = "analyzing"
    /\ Fail(u, "UnitFailure")
    /\ UNCHANGED <<feedback, invoked, workflow, dependencies, current_stage, stage_results, input_data,
                   stage_idx, agent_idx, results, unit_result, unit_input, merged>>

\* the feedback arrives: "if feedback['needs_correction']" the corrections are
\* requested, else _execute_agent returns results
FeedbackReceived(u, needs_correction) ==
    /\ unit_pc[u] = "feedback"
    /\ feedback' = [feedback EXCEPT ![u] = Feedback(needs_correction)]
    /\ unit_pc' = [unit_pc EXCEPT ![u] = AfterFeedback(feedback'[u])]
    /\ UNCHANGED <<invoked, workflow, dependencies, current_stage, stage_results, input_data,
                   wf_pc, stage_idx, agent_idx, results, unit_result, unit_input,
                   merged, wf_error>>

\* results = await self._apply_corrections(...); return results
CorrectionsApplied(u) ==
    /\ unit_pc[u] = "correcting"
    /\ unit_pc' = [unit_pc EXCEPT ![u] = "done"]
    /\ unit_result' = [unit_result EXCEPT ![u] = OutputOf(u, TRUE)]
    /\ UNCHANGED <<feedback, invoked, workflow, dependencies, current_stage, stage_results, input_data,
                   wf_pc, stage_idx, agent_idx, results, unit_input, merged, wf_error>>

\* Sequential branch, _execute_agent has returned: results.append(result);
\* input_data.update(result); then the next member is awaited, or after the
\* last one self.stage_results[stage['name']] = results.
SequentialUnitDone ==
    LET stage == workflow[stage_idx]
        u     == stage.agents[agent_idx]
        ctx   == MergeResult(input_data, unit_result[u])
        rs    == Append(results, unit_result[u])
    IN  /\ wf_pc = "await_agent"
        /\ unit_pc[u] = "done"
        /\ input_data' = ctx
        /\ merged' = merged \cup {u}
        /\ results' = rs
        /\ IF agent_idx < Len(stage.agents)
           THEN /\ agent_idx' = agent_idx + 1
                /\ unit_pc' = [unit_pc EXCEPT ![stage.agents[agent_idx + 1]] = "started"]
                /\ unit_input' = [unit_input EXCEPT ![stage.agents[agent_idx + 1]] = ctx]
                /\ UNCHANGED <<stage_results, stage_idx, wf_pc>>
           ELSE /\ stage_results' = (stage.name :> rs) @@ stage_results
                /\ stage_idx' = stage_idx + 1
                /\ wf_pc' = "for_stage"
                /\ UNCHANGED <<agent_idx, unit_pc, unit_input>>
        /\ UNCHANGED <<feedback, invoked, workflow, dependencies, current_stage, unit_result, wf_error>>

\* asyncio.gather has nothing left to wait for
GatherAny(agents) == \E u \in Range(agents) : unit_pc[u] = "done"

GatherFinished(agents) == \A u \in Range(agents) : unit_pc[u] = "done"

\* a gather that hands the results back last task first
GatherResultsReversed(agents) ==
    [i \in DOMAIN agents |-> unit_result[agents[Len(agents) + 1 - i]]]

\* the list asyncio.gather returns: the tasks' results in the order of the tasks
GatherResults(agents) == [i \in DOMAIN agents |-> unit_result[agents[i]]]

\* results = await asyncio.gather(*tasks) returns;
\* self.stage_results[stage['name']] = results
GatherReturns ==
    LET stage == workflow[stage_idx]
    IN  /\ wf_pc = "gather"
        /\ wf_error = NoError
        /\ GatherFinished(stage.agents)
        /\ stage_results' = (stage.name :> GatherResults(stage.agents)) @@ stage_results
        /\ stage_idx' = stage_idx + 1
        /\ wf_pc' = "for_stage"
        /\ UNCHANGED <<feedback, invoked, workflow, dependencies, current_stage, input_data, agent_idx,
                       results, unit_pc, unit_result, unit_input, merged, wf_error>>

\* asyncio.gather raises the first exception of a task; the other tasks are
\* not cancelled and execute_workflow does not catch it
GatherRaises ==
    /\ wf_pc = "gather"
    /\ wf_error # NoError
    /\ wf_pc' = "raised"
    /\ UNCHANGED <<feedback, invoked, workflow, dependencies, current_stage, stage_results, input_data,
                   stage_idx, agent_idx, results, unit_pc, unit_result, unit_input,
                   merged, wf_error>>

\* the loop over the stages is over: return self.stage_results
WorkflowReturns ==
    /\ wf_pc = "for_stage"
    /\ stage_idx > Len(workflow)
    /\ wf_pc' = "returned"
    /\ UNCHANGED <<feedback, invoked, workflow, dependencies, current_stage, stage_results, input_data,
                   stage_idx, agent_idx, results, unit_pc, unit_result, unit_input,
                   merged, wf_error>>

(***************************************************************************)
(* SupervisorAgent: initialize_workflow, coordinate_analysis and           *)
(* provide_feedback.  The six _coordinate_* methods are opaque awaited     *)
(* calls: each returns its results or raises.                              *)
(***************************************************************************)
\* 'pending_stages' of initialize_workflow
InitialStages ==
    <<"data_parsing", "quality_control", "analysis", "statistics",
      "water_mass_analysis", "reporting">>

\* self.workflow_status = {} of __init__
NoStatus ==
    [start_time |-> 0, status |-> "unset", current_stage |-> "unset",
     completed_stages |-> << >>, pending_stages |-> << >>]

\* self.workflow_status = {...} of initialize_workflow
InitialStatus ==
    [start_time |-> now, status |-> "initialized", current_stage |-> "data_parsing",
     completed_stages |-> << >>, pending_stages |-> InitialStages]

\* the exceptions a _coordinate_* call raises: the unit's own error, or its
\* timeout
PhaseErrors == {"UnitFailure", "TimeoutError"}

NoOutcome == [kind |-> "none", status |-> "none", exception |-> "none",
              stage |-> "none", workflow_status |-> NoStatus]

\* the stage and results that provide_feedback is called with
FeedbackInputs == {<<"parsing", "r1">>, <<"qa", "r2">>}

\* _evaluate_results, _generate_stage_recommendations, _calculate_quality_metrics:
\* findings computed from the stage and the results alone
EvaluationOf(stage, res) == <<"evaluation", stage, res>>
RecommendationsOf(stage, res) == <<"recommendations", stage, res>>
QualityMetricsOf(stage, res) ==
    IF stage \in {"parsing", "qa", "analysis", "reporting"}
    THEN <<"metrics", stage, res>> ELSE << >>

\* the dict feedback = {...} of provide_feedback
FeedbackRecord(stage, res) ==
    [stage |-> stage, timestamp |-> now,
     evaluation |-> EvaluationOf(stage, res),
     recommendations |-> RecommendationsOf(stage, res),
     quality_metrics |-> QualityMetricsOf(stage, res)]

SupervisorInit ==
    /\ workflow_status = NoStatus
    /\ feedback_history = << >>
    /\ now = 0
    /\ sup_pc = "constructed"
    /\ phase = 0
    /\ phases_done = << >>
    /\ coord_outcome = NoOutcome

\* time passes, as far as the clock is followed
TickUpTo(n) ==
    /\ now < n
    /\ now' = now + 1
    /\ UNCHANGED <<workflow_status, feedback_history, sup_pc, phase, phases_done,
                   coord_outcome>>

Tick == TickUpTo(MaxNow)

\* initialize_workflow returns: the agents are registered, configured and
\* interviewed, and self.workflow_status is set
InitializeWorkflow ==
    /\ sup_pc = "constructed"
    /\ workflow_status' = InitialStatus
    /\ sup_pc' = "ready"
    /\ UNCHANGED <<feedback_history, now, phase, phases_done, coord_outcome>>

\* coordinate_analysis is called: await self._coordinate_parsing()
CoordinateAnalysisCall ==
    /\ sup_pc = "ready"
    /\ sup_pc' = "coordinating"
    /\ phase' = 1
    /\ UNCHANGED <<workflow_status, feedback_history, now, phases_done, coord_outcome>>

\* the awaited _coordinate_* call returns; the next one is awaited, or after
\* _coordinate_reporting the dict {'status': 'completed', 'results': ...,
\* 'workflow_status': self.workflow_status} is returned
PhaseReturns ==
    /\ sup_pc = "coordinating"
    /\ phases_done' = Append(phases_done, InitialStages[phase])
    /\ IF phase < Len(InitialStages)
       THEN /\ phase' = phase + 1
            /\ UNCHANGED <<sup_pc, coord_outcome>>
       ELSE /\ sup_pc' = "finished"
            /\ coord_outcome' = [kind |-> "returned", status |-> "completed",
                                 exception |-> "none", stage |-> "none",
                                 workflow_status |-> workflow_status]
            /\ UNCHANGED phase
    /\ UNCHANGED <<workflow_status, feedback_history, now>>

\* the awaited _coordinate_* call raises e: "except Exception as e:" logs the
\* error and "raise" hands the same exception to the caller
PhaseRaises(e) ==
    /\ sup_pc = "coordinating"
    /\ sup_pc' = "finished"
    /\ coord_outcome' = [kind |-> "raised", status |-> "none", exception |-> e,
                         stage |-> "none", workflow_status |-> NoStatus]
    /\ UNCHANGED <<workflow_status, feedback_history, now, phase, phases_done>>

\* a history that keeps only its latest record
ReplaceLast(h, r) == IF h = << >> THEN <<r>> ELSE [h EXCEPT ![Len(h)] = r]

\* self.feedback_history.append(feedback)
AppendRecord(h, r) == Append(h, r)

\* provide_feedback(stage, results): the record is built, appended to
\* self.feedback_history and returned
ProvideFeedback(stage, res) ==
    /\ Len(feedback_history) < MaxFeedback
    /\ feedback_history' = AppendRecord(feedback_history, FeedbackRecord(stage, res))
    /\ UNCHANGED <<workflow_status, now, sup_pc, phase, phases_done, coord_outcome>>

(***************************************************************************)
(* AgentCoordinator (tests/test_multiagent_system.py): run_with_timeout    *)
(* and coordinate_analysis.  The units (parse, qa_check, research) are     *)
(* opaque awaited calls that take time and return or raise.  SIGALRM is    *)
(* one timer of the whole process: signal.alarm(t) replaces the pending    *)
(* alarm and signal.alarm(0) cancels it, whoever armed it.                 *)
(***************************************************************************)
CoUnits == {"parser", "qa", "researcher", "analyst"}

\* CONFIG['timeouts'], in ticks of 15 seconds
TimeoutParser == 2
TimeoutQa == 3
TimeoutAnalyst == 4
TimeoutResearcher == 6

Timeout(u) ==
    CASE u = "parser" -> TimeoutParser
      [] u = "qa" -> TimeoutQa
      [] u = "analyst" -> TimeoutAnalyst
      [] u = "researcher" -> TimeoutResearcher

\* the key of results that holds the unit's AgentResult
ResultKey(u) == IF u = "researcher" THEN "research" ELSE u

ResultKeys == {"parser", "qa", "research", "analyst", "error"}

\* AgentResult(success, data, error, execution_time); the data is opaque
NoResult == [success |-> FALSE, error |-> "unset", execution_time |-> 0]
AgentResult(success, error, execution_time) ==
    [success |-> success, error |-> error, execution_time |-> execution_time]

\* the calls a caller makes: coordinate_analysis(data_path), or the two
\* concurrent calls of its step 2, asyncio.gather(run_qa(..), run_researcher(..)),
\* or two units one after another, await run_parser(..); await run_analyst(..)
CoEntries == {"coordinate_analysis", "gather", "sequence"}

CoordinatorInit ==
    /\ clock = 0
    /\ alarm = 0
    /\ co_entry \in CoEntries
    /\ co_pc = "idle"
    /\ co_start_time = 0
    /\ co_results = [k \in ResultKeys |-> NoResult]
    /\ tc_pc = [u \in CoUnits |-> "none"]
    /\ tc_start = [u \in CoUnits |-> 0]
    /\ tc_result = [u \in CoUnits |-> NoResult]

\* the pending alarm is due: SIGALRM is delivered and timeout_handler raises
\* TimeoutException in whatever code the main thread is executing
AlarmDue == alarm # 0 /\ clock >= alarm

\* time passes while a call is in progress; a due alarm is delivered at once
CoTick ==
    /\ co_pc \in {"parser", "gather", "analyst"}
    /\ clock < MaxClock
    /\ ~AlarmDue
    /\ clock' = clock + 1
    /\ UNCHANGED <<alarm, co_entry, co_pc, co_start_time, co_results, tc_pc,
                   tc_start, tc_result>>

\* run_with_timeout up to "await func(...)": signal.signal(SIGALRM, handler);
\* signal.alarm(timeout); start_time = time.time(); func is called
Arm(u) ==
    /\ alarm' = clock + Timeout(u)
    /\ tc_start' = [tc_start EXCEPT ![u] = clock]
    /\ tc_pc' = [tc_pc EXCEPT ![u] = "running"]

\* a finally clause that leaves the pending alarm as it is
LeaveAlarm(a) == a

\* "finally: signal.alarm(0)"
Disarm(a) == 0

\* run_with_timeout returns r: the finally clause runs first
Finish(u, r) ==
    /\ tc_pc[u] = "running"
    /\ tc_result' = [tc_result EXCEPT ![u] = r]
    /\ tc_pc' = [tc_pc EXCEPT ![u] = "returned"]
    /\ alarm' = Disarm(alarm)
    /\ UNCHANGED <<clock, co_entry, co_pc, co_start_time, co_results, tc_start>>

\* func returns: AgentResult(success=True, data=result, execution_time=...)
FuncReturns(u) == Finish(u, AgentResult(TRUE, "none", clock - tc_start[u]))

\* func raises: "except Exception as e" gives AgentResult(success=False, error=str(e), ...)
FuncRaises(u) == Finish(u, AgentResult(FALSE, "Exception", clock - tc_start[u]))

\* the handler raises while the code of unit u's call is executing:
\* "except TimeoutException" gives AgentResult(success=False,
\* error="Timeout ...", execution_time=timeout)
TimeoutInCall(u) ==
    /\ AlarmDue
    /\ Finish(u, AgentResult(FALSE, "Timeout", Timeout(u)))

\* the handler raises while the event loop itself is executing (every call
\* being suspended in an await): TimeoutException leaves the loop, the tasks
\* are cancelled and their finally clauses run; nothing is returned
TimeoutInLoop ==
    /\ AlarmDue
    /\ \E u \in CoUnits : tc_pc[u] = "running"
    /\ co_pc' = "crashed"
    /\ tc_pc' = [u \in CoUnits |-> IF tc_pc[u] \in {"running", "scheduled"}
                                   THEN "cancelled" ELSE tc_pc[u]]
    /\ alarm' = Disarm(alarm)
    /\ UNCHANGED <<clock, co_entry, co_start_time, co_results, tc_start, tc_result>>

\* coordinate_analysis is called: self.start_time = time.time(); results = {};
\* await self.run_parser(data_path)
CoordinateCall ==
    /\ co_entry = "coordinate_analysis"
    /\ co_pc = "idle"
    /\ co_start_time' = clock
    /\ Arm("parser")
    /\ co_pc' = "parser"
    /\ UNCHANGED <<clock, co_entry, co_results, tc_result>>

\* run_parser has returned a failure: "if not results['parser'].success:
\* return results"
ParserFailed ==
    /\ co_entry = "coordinate_analysis"
    /\ co_pc = "parser"
    /\ tc_pc["parser"] = "returned"
    /\ ~tc_result["parser"].success
    /\ co_results' = [co_results EXCEPT !["parser"] = tc_result["parser"]]
    /\ co_pc' = "returned"
    /\ UNCHANGED <<clock, alarm, co_entry, co_start_time, tc_pc, tc_start, tc_result>>

\* run_parser has returned a success: "async with ThreadPoolExecutor() as
\* executor" raises, because ThreadPoolExecutor is no asynchronous context
\* manager; the body (run_qa, run_researcher, gather) and the rest of the try
\* block (run_analyst, the check of the total time) are skipped, "except
\* Exception as e" stores results['error'] and results is returned
ExecutorRaises ==
    /\ co_entry = "coordinate_analysis"
    /\ co_pc = "parser"
    /\ tc_pc["parser"] = "returned"
    /\ tc_result["parser"].success
    /\ co_results' = [co_results EXCEPT
                        !["parser"] = tc_result["parser"],
                        !["error"] = AgentResult(FALSE, "TypeError", clock - co_start_time)]
    /\ co_pc' = "returned"
    /\ UNCHANGED <<clock, alarm, co_entry, co_start_time, tc_pc, tc_start, tc_result>>

\* await self.run_parser(data_path) is called by itself
SequenceCall ==
    /\ co_entry = "sequence"
    /\ co_pc = "idle"
    /\ Arm("parser")
    /\ co_pc' = "parser"
    /\ UNCHANGED <<clock, co_entry, co_start_time, co_results, tc_result>>

\* run_parser has returned, whatever its result; await self.run_analyst(..)
SequenceNext ==
    /\ co_entry = "sequence"
    /\ co_pc = "parser"
    /\ tc_pc["parser"] = "returned"
    /\ co_results' = [co_results EXCEPT !["parser"] = tc_result["parser"]]
    /\ Arm("analyst")
    /\ co_pc' = "analyst"
    /\ UNCHANGED <<clock, co_entry, co_start_time, tc_result>>

\* run_analyst has returned
SequenceDone ==
    /\ co_entry = "sequence"
    /\ co_pc = "analyst"
    /\ tc_pc["analyst"] = "returned"
    /\ co_results' = [co_results EXCEPT !["analyst"] = tc_result["analyst"]]
    /\ co_pc' = "returned"
    /\ UNCHANGED <<clock, alarm, co_entry, co_start_time, tc_pc, tc_start, tc_result>>

\* await asyncio.gather(self.run_qa(..), self.run_researcher(..)): a task is
\* scheduled for each call
GatherCall ==
    /\ co_entry = "gather"
    /\ co_pc = "idle"
    /\ co_pc' = "gather"
    /\ tc_pc' = [tc_pc EXCEPT !["qa"] = "scheduled", !["researcher"] = "scheduled"]
    /\ UNCHANGED <<clock, alarm, co_entry, co_start_time, co_results, tc_start, tc_result>>

\* the event loop starts a scheduled task, in the order of gather's arguments
TaskStarts(u) ==
    /\ co_pc = "gather"
    /\ tc_pc[u] = "scheduled"
    /\ u = "researcher" => tc_pc["qa"] # "scheduled"
    /\ ~AlarmDue
    /\ Arm(u)
    /\ UNCHANGED <<clock, co_entry, co_pc, co_start_time, co_results, tc_result>>

\* both tasks are done: gather returns their results in the order of its
\* arguments
GatherDone ==
    /\ co_pc = "gather"
    /\ tc_pc["qa"] = "returned" /\ tc_pc["researcher"] = "returned"
    /\ co_results' = [co_results EXCEPT !["qa"] = tc_result["qa"],
                                        !["research"] = tc_result["researcher"]]
    /\ co_pc' = "returned"
    /\ UNCHANGED <<clock, alarm, co_entry, co_start_time, tc_pc, tc_start, tc_result>>

(***************************************************************************)
(* AgentOrchestrator.setup_workflow's channels and                         *)
(* AgentCommunicationProtocol.send_message.  A channel is an unbounded     *)
(* asyncio.Queue: put appends at the tail, get blocks while the queue is   *)
(* empty and then removes the head.                                        *)
(***************************************************************************)
\* the keys of self.communication_channels
ChannelNames == {"data_queue", "results_queue", "feedback_queue", "status_queue"}

\* the messages handed to the channels so far
Traffic ==
    Len(handed["data_queue"]) + Len(handed["results_queue"])
        + Len(handed["feedback_queue"]) + Len(handed["status_queue"])

\* the content of a message: the serial number of the message
NextContent == Traffic + 1

\* whether the module binds the name datetime: its imports are typing,
\* asyncio and pathlib
DatetimeBound == FALSE

\* the dict message = {...} of send_message
Envelope(sender, receiver, message_type, content) ==
    [sender |-> sender, receiver |-> receiver, type |-> message_type,
     content |-> content, timestamp |-> now]

\* self.communication_channels = {} of __init__
ChannelInit ==
    /\ communication_channels = [c \in {} |-> << >>]
    /\ handed = [c \in ChannelNames |-> << >>]
    /\ dequeued = [c \in ChannelNames |-> << >>]
    /\ send_error = "none"

\* setup_workflow: four new empty queues
SetupWorkflow ==
    /\ DOMAIN communication_channels = {}
    /\ communication_channels' = [c \in ChannelNames |-> << >>]
    /\ UNCHANGED <<handed, dequeued, send_error>>

\* send_message(sender, receiver, message_type, content, channel): the
\* message dict is built, which evaluates datetime.now(), and then put on
\* the channel
SendMessage(c) ==
    LET message == Envelope("parser", "qa", "data", NextContent)
    IN  /\ c \in DOMAIN communication_channels
        /\ Traffic < MaxMessages
        /\ handed' = [handed EXCEPT ![c] = Append(@, message)]
        /\ IF DatetimeBound
           THEN /\ communication_channels' =
                       [communication_channels EXCEPT ![c] = Append(@, message)]
                /\ send_error' = "none"
           ELSE /\ send_error' = "NameError"
                /\ UNCHANGED communication_channels
        /\ UNCHANGED dequeued

\* await channel.put(message) made by a unit itself, without send_message
ChannelPut(c) ==
    LET message == Envelope("qa", "analyst", "results", NextContent)
    IN  /\ c \in DOMAIN communication_channels
        /\ Traffic < MaxMessages
        /\ handed' = [handed EXCEPT ![c] = Append(@, message)]
        /\ communication_channels' =
                [communication_channels EXCEPT ![c] = Append(@, message)]
        /\ UNCHANGED <<dequeued, send_error>>

\* await channel.get() returns the head of the queue
ChannelGet(c) ==
    /\ c \in DOMAIN communication_channels
    /\ communication_channels[c] # << >>
    /\ dequeued' = [dequeued EXCEPT ![c] = Append(@, Head(communication_channels[c]))]
    /\ communication_channels' =
            [communication_channels EXCEPT ![c] = Tail(@)]
    /\ UNCHANGED <<handed, send_error>>

(***************************************************************************)
(* SupervisorAgent.verify_outputs.  The call has no await: its steps are   *)
(* the iterations of the loop over required_files.                         *)
(***************************************************************************)
\* required_files
RequiredFiles ==
    <<"figures/ctd_profiles.png", "figures/ts_diagram.png",
      "figures/vertical_sections.png", "figures/spatial_distribution.png">>

\* the paths an output directory may hold
OutputFiles == Range(RequiredFiles) \cup {"report/report.pdf"}

\* a check that finds every path
AlwaysExists(dir, file) == TRUE

\* (output_dir / file).exists()
Exists(dir, file) == file \in dir

VerifierInit ==
    /\ output_dir \in SUBSET OutputFiles
    /\ vo_pc = "idle"
    /\ vo_file = 0
    /\ missing_files = << >>
    /\ vo_warnings = << >>
    /\ vo_return = FALSE

\* verify_outputs(output_dir) is called: missing_files = []
VerifyOutputsCall ==
    /\ vo_pc = "idle"
    /\ vo_pc' = "for_file"
    /\ vo_file' = 1
    /\ missing_files' = << >>
    /\ UNCHANGED <<output_dir, vo_warnings, vo_return>>

\* one iteration of "for file in required_files"
CheckFile ==
    LET file == RequiredFiles[vo_file]
    IN  /\ vo_pc = "for_file"
        /\ vo_file <= Len(RequiredFiles)
        /\ IF ~Exists(output_dir, file)
           THEN /\ vo_warnings' = Append(vo_warnings, <<file>>)
                /\ missing_files' = Append(missing_files, file)
           ELSE UNCHANGED <<vo_warnings, missing_files>>
        /\ vo_file' = vo_file + 1
        /\ UNCHANGED <<output_dir, vo_pc, vo_return>>

\* after the loop: "if missing_files:" the list is logged and False is
\* returned, else True is returned
VerifyOutputsReturns ==
    /\ vo_pc = "for_file"
    /\ vo_file > Len(RequiredFiles)
    /\ vo_pc' = "returned"
    /\ IF missing_files # << >>
       THEN /\ vo_warnings' = Append(vo_warnings, missing_files)
            /\ vo_return' = FALSE
       ELSE /\ vo_return' = TRUE
            /\ UNCHANGED vo_warnings
    /\ UNCHANGED <<output_dir, vo_file, missing_files>>

(***************************************************************************)
(* SupervisorAgent.initialize_workflow: _configure_agents and              *)
(* _interview_agents, one action per iteration of their loops.  Whether an *)
(* agent has initialize or configure is found out with hasattr, so it is   *)
(* an input.                                                               *)
(***************************************************************************)
\* the keys of self.agents, in the order of the dict
AgentOrder ==
    <<"parser", "qa", "analyst", "stats", "water_mass", "report", "poster",
      "researcher">>

\* the sets of agents that have an initialize method
Initializables == {{}, {"parser"}, {"qa", "report"}, Range(AgentOrder)}

\* the sets of agents that pass _verify_agent_config: all of them, or all but
\* the parser (ParserAgent defines no configure)
Configurables == {Range(AgentOrder), Range(AgentOrder) \ {"parser"}}

SetupInit ==
    /\ initializable \in Initializables
    /\ configurable \in Configurables
    /\ data_path_exists \in BOOLEAN
    /\ iw_pc = "idle"
    /\ iw_agent = 0
    /\ initialize_calls = [a \in Range(AgentOrder) |-> 0]
    /\ iw_error = "none"

\* initialize_workflow is called: the agents are registered and
\* _configure_agents starts; "if not data_path.exists(): raise FileNotFoundError"
InitializeWorkflowCall ==
    /\ iw_pc = "idle"
    /\ IF data_path_exists
       THEN iw_pc' = "configure" /\ iw_agent' = 1 /\ UNCHANGED iw_error
       ELSE iw_pc' = "raised" /\ iw_error' = "FileNotFoundError" /\ UNCHANGED iw_agent
    /\ UNCHANGED <<initializable, configurable, data_path_exists, initialize_calls>>

\* "if hasattr(agent, 'initialize'): await agent.initialize()"; the call
\* returns (ok) or raises, and the exception is logged and re-raised
AwaitInitialize(a, ok, next_pc) ==
    /\ a \notin initializable => ok
    /\ initialize_calls' =
          IF a \in initializable THEN [initialize_calls EXCEPT ![a] = @ + 1]
          ELSE initialize_calls
    /\ IF ok
       THEN /\ IF iw_agent < Len(AgentOrder)
               THEN iw_agent' = iw_agent + 1 /\ UNCHANGED iw_pc
               ELSE iw_agent' = 1 /\ iw_pc' = next_pc
            /\ UNCHANGED iw_error
       ELSE /\ iw_pc' = "raised"
            /\ iw_error' = "InitError"
            /\ UNCHANGED iw_agent

\* one iteration of the loop of _configure_agents
ConfigureAgent(ok) ==
    /\ iw_pc = "configure"
    /\ AwaitInitialize(AgentOrder[iw_agent], ok, "interview")
    /\ UNCHANGED <<initializable, configurable, data_path_exists>>

\* one iteration of the loop of _interview_agents: _verify_agent_config, then
\* initialize once more
InterviewAgent(ok) ==
    /\ iw_pc = "interview"
    /\ AgentOrder[iw_agent] \in configurable
    /\ AwaitInitialize(AgentOrder[iw_agent], ok, "interviewed")
    /\ UNCHANGED <<initializable, configurable, data_path_exists>>

\* "if not config_status: raise ValueError"
InterviewFails ==
    /\ iw_pc = "interview"
    /\ AgentOrder[iw_agent] \notin configurable
    /\ iw_pc' = "raised"
    /\ iw_error' = "ValueError"
    /\ UNCHANGED <<initializable, configurable, data_path_exists, iw_agent,
                   initialize_calls>>

\* self.workflow_status = {...}; initialize_workflow returns
InitializeWorkflowReturns ==
    /\ iw_pc = "interviewed"
    /\ iw_pc' = "returned"
    /\ InitializeWorkflow
    /\ UNCHANGED <<initializable, configurable, data_path_exists, iw_agent,
                   initialize_calls, iw_error>>

(***************************************************************************)
(* Specifications: the workflow run (Spec), the supervisor's reviews       *)
(* (ReviewSpec), the supervisor's coordinated run and histories            *)
(* (SupervisorSpec, RunClockSpec), the coordinator's timeouts              *)
(* (CoordinatorSpec), the output verifier (VerifierSpec), the message      *)
(* channels (ChannelSpec) and the set-up of the agents (SetupSpec) are     *)
(* separate objects and are explored separately.                           *)
(***************************************************************************)
\* the state of the coordinator while other objects are explored
CoordinatorIdle == CoordinatorInit /\ co_entry = "coordinate_analysis"

\* the set-up of the agents while other objects are explored
SetupIdle ==
    /\ SetupInit
    /\ initializable = {}
    /\ configurable = Range(AgentOrder)
    /\ data_path_exists

\* the state of the objects that have specifications of their own
UtilityIdle == VerifierInit /\ output_dir = {} /\ ChannelInit /\ SetupIdle

Init == WorkflowInit /\ ReviewInit /\ SupervisorInit /\ CoordinatorIdle /\ UtilityIdle

Next ==
    \/ LaunchParallelStage /\ UNCHANGED <<review_vars, supervisor_vars, coordinator_vars, utility_vars>>
    \/ EnterSequentialStage /\ UNCHANGED <<review_vars, supervisor_vars, coordinator_vars, utility_vars>>
    \/ \E u \in Units : CheckDependencies(u) /\ UNCHANGED <<review_vars, supervisor_vars, coordinator_vars, utility_vars>>
    \/ \E u \in Units : AnalyzeReturns(u) /\ UNCHANGED <<review_vars, supervisor_vars, coordinator_vars, utility_vars>>
    \/ \E u \in Units : AnalyzeRaises(u) /\ UNCHANGED <<review_vars, supervisor_vars, coordinator_vars, utility_vars>>
    \/ \E u \in Units, nc \in BOOLEAN : FeedbackReceived(u, nc) /\ UNCHANGED <<review_vars, supervisor_vars, coordinator_vars, utility_vars>>
    \/ \E u \in Units : CorrectionsApplied(u) /\ UNCHANGED <<review_vars, supervisor_vars, coordinator_vars, utility_vars>>
    \/ SequentialUnitDone /\ UNCHANGED <<review_vars, supervisor_vars, coordinator_vars, utility_vars>>
    \/ GatherReturns /\ UNCHANGED <<review_vars, supervisor_vars, coordinator_vars, utility_vars>>
    \/ GatherRaises /\ UNCHANGED <<review_vars, supervisor_vars, coordinator_vars, utility_vars>>
    \/ WorkflowReturns /\ UNCHANGED <<review_vars, supervisor_vars, coordinator_vars, utility_vars>>

Spec == Init /\ [][Next]_vars

ReviewSpecInit ==
    /\ ReviewInit
    /\ SupervisorInit
    /\ CoordinatorIdle
    /\ UtilityIdle
    /\ WorkflowInit
    /\ workflow = BuiltinStages
    /\ dependencies = BuiltinDependencies

ReviewSpecNext ==
    \/ \E uf \in UserFeedbacks : ReviewReportCall(uf) /\ UNCHANGED <<workflow_vars, supervisor_vars, coordinator_vars, utility_vars>>
    \/ \E a \in 0..ScoreDen : AutomatedReviewDone(a) /\ UNCHANGED <<workflow_vars, supervisor_vars, coordinator_vars, utility_vars>>
    \/ \E q \in 0..ScoreDen : QualityEvaluationDone(q) /\ UNCHANGED <<workflow_vars, supervisor_vars, coordinator_vars, utility_vars>>

ReviewSpec == ReviewSpecInit /\ [][ReviewSpecNext]_vars

\* the scores and the feedback of the reviews made beside a coordinated run
SupervisorAutoReviews == {4, 9}
SupervisorQualities == {9}
SupervisorFeedbacks == {NoFeedback}

SupervisorSpecInit ==
    /\ SupervisorInit
    /\ CoordinatorIdle
    /\ UtilityIdle
    /\ ReviewInit
    /\ WorkflowInit
    /\ workflow = BuiltinStages
    /\ dependencies = BuiltinDependencies

SupervisorSpecNext ==
    \/ Tick /\ UNCHANGED <<review_vars, workflow_vars, coordinator_vars, utility_vars>>
    \/ InitializeWorkflow /\ UNCHANGED <<review_vars, workflow_vars, coordinator_vars, utility_vars>>
    \/ CoordinateAnalysisCall /\ UNCHANGED <<review_vars, workflow_vars, coordinator_vars, utility_vars>>
    \/ PhaseReturns /\ UNCHANGED <<review_vars, workflow_vars, coordinator_vars, utility_vars>>
    \/ \E e \in PhaseErrors : PhaseRaises(e) /\ UNCHANGED <<review_vars, workflow_vars, coordinator_vars, utility_vars>>
    \/ \E i \in FeedbackInputs :
          ProvideFeedback(i[1], i[2]) /\ UNCHANGED <<review_vars, workflow_vars, coordinator_vars, utility_vars>>
    \/ \E uf \in SupervisorFeedbacks :
          ReviewReportCall(uf) /\ UNCHANGED <<supervisor_vars, workflow_vars, coordinator_vars, utility_vars>>
    \/ \E a \in SupervisorAutoReviews :
          AutomatedReviewDone(a) /\ UNCHANGED <<supervisor_vars, workflow_vars, coordinator_vars, utility_vars>>
    \/ \E q \in SupervisorQualities :
          QualityEvaluationDone(q) /\ UNCHANGED <<supervisor_vars, workflow_vars, coordinator_vars, utility_vars>>

SupervisorSpec == SupervisorSpecInit /\ [][SupervisorSpecNext]_vars

\* A coordinated run of the supervisor followed on a coarse clock, one tick
\* being the span of CONFIG['timeouts']['total'] (300 seconds).
GlobalBudget == 1

RunClockSpecNext ==
    \/ TickUpTo(MaxRunNow) /\ UNCHANGED <<review_vars, workflow_vars, coordinator_vars, utility_vars>>
    \/ InitializeWorkflow /\ UNCHANGED <<review_vars, workflow_vars, coordinator_vars, utility_vars>>
    \/ CoordinateAnalysisCall /\ UNCHANGED <<review_vars, workflow_vars, coordinator_vars, utility_vars>>
    \/ PhaseReturns /\ UNCHANGED <<review_vars, workflow_vars, coordinator_vars, utility_vars>>
    \/ \E e \in PhaseErrors : PhaseRaises(e) /\ UNCHANGED <<review_vars, workflow_vars, coordinator_vars, utility_vars>>

RunClockSpec == SupervisorSpecInit /\ [][RunClockSpecNext]_vars

other_vars == <<review_vars, workflow_vars, supervisor_vars, utility_vars>>

CoordinatorSpecInit ==
    /\ CoordinatorInit
    /\ UtilityIdle
    /\ SupervisorInit
    /\ ReviewInit
    /\ WorkflowInit
    /\ workflow = BuiltinStages
    /\ dependencies = BuiltinDependencies

CoordinatorSpecNext ==
    \/ CoTick /\ UNCHANGED other_vars
    \/ CoordinateCall /\ UNCHANGED other_vars
    \/ ParserFailed /\ UNCHANGED other_vars
    \/ ExecutorRaises /\ UNCHANGED other_vars
    \/ GatherCall /\ UNCHANGED other_vars
    \/ SequenceCall /\ UNCHANGED other_vars
    \/ SequenceNext /\ UNCHANGED other_vars
    \/ SequenceDone /\ UNCHANGED other_vars
    \/ \E u \in CoUnits : TaskStarts(u) /\ UNCHANGED other_vars
    \/ \E u \in CoUnits : FuncReturns(u) /\ UNCHANGED other_vars
    \/ \E u \in CoUnits : FuncRaises(u) /\ UNCHANGED other_vars
    \/ \E u \in CoUnits : TimeoutInCall(u) /\ UNCHANGED other_vars
    \/ TimeoutInLoop /\ UNCHANGED other_vars
    \/ GatherDone /\ UNCHANGED other_vars

CoordinatorSpec == CoordinatorSpecInit /\ [][CoordinatorSpecNext]_vars

VerifierSpecInit ==
    /\ VerifierInit
    /\ ChannelInit
    /\ SetupIdle
    /\ CoordinatorIdle
    /\ SupervisorInit
    /\ ReviewInit
    /\ WorkflowInit
    /\ workflow = BuiltinStages
    /\ dependencies = BuiltinDependencies

core_vars == <<review_vars, workflow_vars, supervisor_vars, coordinator_vars>>

VerifierSpecNext ==
    \/ VerifyOutputsCall /\ UNCHANGED <<core_vars, channel_vars, setup_vars>>
    \/ CheckFile /\ UNCHANGED <<core_vars, channel_vars, setup_vars>>
    \/ VerifyOutputsReturns /\ UNCHANGED <<core_vars, channel_vars, setup_vars>>

VerifierSpec == VerifierSpecInit /\ [][VerifierSpecNext]_vars

ChannelSpecInit ==
    /\ ChannelInit
    /\ SetupIdle
    /\ VerifierInit
    /\ output_dir = {}
    /\ CoordinatorIdle
    /\ SupervisorInit
    /\ ReviewInit
    /\ WorkflowInit
    /\ workflow = BuiltinStages
    /\ dependencies = BuiltinDependencies

ChannelSpecNext ==
    \/ SetupWorkflow /\ UNCHANGED <<core_vars, verifier_vars, setup_vars>>
    \/ \E c \in ChannelNames : SendMessage(c) /\ UNCHANGED <<core_vars, verifier_vars, setup_vars>>
    \/ \E c \in ChannelNames : ChannelPut(c) /\ UNCHANGED <<core_vars, verifier_vars, setup_vars>>
    \/ \E c \in ChannelNames : ChannelGet(c) /\ UNCHANGED <<core_vars, verifier_vars, setup_vars>>

ChannelSpec == ChannelSpecInit /\ [][ChannelSpecNext]_vars

SetupSpecInit ==
    /\ SetupInit
    /\ ChannelInit
    /\ VerifierInit
    /\ output_dir = {}
    /\ CoordinatorIdle
    /\ SupervisorInit
    /\ ReviewInit
    /\ WorkflowInit
    /\ workflow = BuiltinStages
    /\ dependencies = BuiltinDependencies

rest_vars == <<review_vars, workflow_vars, coordinator_vars, verifier_vars, channel_vars>>

SetupSpecNext ==
    \/ InitializeWorkflowCall /\ UNCHANGED <<rest_vars, supervisor_vars>>
    \/ \E ok \in BOOLEAN : ConfigureAgent(ok) /\ UNCHANGED <<rest_vars, supervisor_vars>>
    \/ \E ok \in BOOLEAN : InterviewAgent(ok) /\ UNCHANGED <<rest_vars, supervisor_vars>>
    \/ InterviewFails /\ UNCHANGED <<rest_vars, supervisor_vars>>
    \/ InitializeWorkflowReturns /\ UNCHANGED rest_vars

SetupSpec == SetupSpecInit /\ [][SetupSpecNext]_vars

(***************************************************************************)
(* Claims about execute_workflow (checked under Spec)                      *)
(***************************************************************************)
Sequential(i) == i \in DOMAIN workflow /\ ~workflow[i].parallel
Parallel(i) == i \in DOMAIN workflow /\ workflow[i].parallel
Members(i) == Range(workflow[i].agents)
Started(u) == unit_pc[u] # "pending"

\* C4: the stages run strictly in their declared order: no unit of a stage
\* starts before every unit of every earlier stage has completed; the stage
\* after a parallel stage starts only once all its members have finished.
C4_StagesInOrder ==
    \A u, v \in Units :
        (StageOf(v) < StageOf(u) /\ Started(u)) => unit_pc[v] = "done"

\* the unit of the stage after the parallel stage is running
C4_Witness ==
    /\ Parallel(2)
    /\ unit_pc[workflow[3].agents[1]] = "analyzing"
    /\ \A v \in Members(2) : unit_pc[v] = "done"

\* C5: within a sequential stage at most one unit is executing at any moment,
\* and unit N+1 starts only after unit N has completed and its output has been
\* merged into the input_data that N+1 receives.
C5_SequentialOneAtATime ==
    \A i \in DOMAIN workflow : Sequential(i) =>
        LET ag == workflow[i].agents
        IN  /\ Cardinality({u \in Range(ag) : unit_pc[u] \in Executing}) <= 1
            /\ \A n \in 1..(Len(ag) - 1) :
                  Started(ag[n + 1]) =>
                      /\ unit_pc[ag[n]] = "done"
                      /\ Contains(unit_input[ag[n + 1]], unit_result[ag[n]])

\* qa is running on an input that holds the corrected output of parser
C5_Witness ==
    /\ workflow[1].agents = <<"parser", "qa">>
    /\ unit_pc["qa"] = "analyzing"
    /\ unit_result["parser"] = OutputOf("parser", TRUE)
    /\ Contains(unit_input["qa"], OutputOf("parser", TRUE))

\* C6: during a parallel stage input_data is not modified until every member
\* has finished: all members are launched on the same contents, and no
\* member's input ever holds an output of a sibling of the stage.
C6_ParallelSameInput ==
    \A i \in DOMAIN workflow : Parallel(i) =>
        \A u \in Members(i) : Started(u) =>
            /\ \A v \in Members(i) : unit_input[v] = unit_input[u]
            /\ \A k \in DOMAIN unit_input[u] : unit_input[u][k].by \notin Members(i)
            /\ unit_pc[u] \in Executing =>
                  /\ input_data = unit_input[u]
                  /\ \A k \in DOMAIN input_data : input_data[k].by \notin Members(i)

\* one member of the parallel stage has returned its result while a sibling
\* is still running
C6_Witness ==
    /\ Parallel(2)
    /\ \E u, v \in Members(2) :
          /\ unit_pc[u] = "done"
          /\ unit_result[u] = OutputOf(u, FALSE)
          /\ unit_pc[v] = "analyzing"

\* the output of unit v as unit u received it: under v's name, or entry by entry
Received(u, v) ==
    \/ v \in DOMAIN unit_input[u] /\ unit_input[u][v] = unit_result[v]
    \/ Contains(unit_input[u], unit_result[v])

\* C7: after a parallel stage the outputs of all its members are merged into
\* the RunContext, so every unit of the following stage receives the output of
\* every member of the parallel stage in its input.
C7_ParallelOutputsReachNextStage ==
    \A i \in DOMAIN workflow : (Parallel(i) /\ i + 1 \in DOMAIN workflow) =>
        \A u \in Members(i + 1) : Started(u) =>
            \A v \in Members(i) : Received(u, v)

\* B follows A in a sequential stage and depends on it
DependsInStage(i, a, b) ==
    /\ Sequential(i)
    /\ a \in DOMAIN workflow[i].agents /\ b \in DOMAIN workflow[i].agents
    /\ a < b
    /\ workflow[i].agents[a] \in dependencies[workflow[i].agents[b]]

ParallelStageEnded(i) ==
    Parallel(i) /\ wf_pc = "for_stage" /\ stage_idx = i + 1

\* input_data after the units of the stages before stage i, in their order
RECURSIVE MergedBefore(_, _)
MergedBefore(i, j) ==
    \* the merge of the results of stages 1 .. i-1 and of the first j members of stage i
    IF i = 1 /\ j = 0 THEN InitialInput
    ELSE IF j = 0 THEN MergedBefore(i - 1, Len(workflow[i - 1].agents))
    ELSE IF workflow[i].parallel THEN MergedBefore(i, j - 1)
    ELSE DictUpdate(MergedBefore(i, j - 1), unit_result[workflow[i].agents[j]])

StageDefinitionInvariant(stages, deps) ==
    \A i \in DOMAIN stages : \A j \in DOMAIN stages[i].agents :
        \A d \in deps[stages[i].agents[j]] :
            \/ \E i2 \in 1..(i - 1) : d \in Range(stages[i2].agents)
            \/ /\ ~stages[i].parallel
               /\ \E j2 \in 1..(j - 1) : stages[i].agents[j2] = d

\* C10: the built-in stage list satisfies the StageDefinition invariant against
\* the built-in dependency map; no member of the parallel stage depends on
\* another member of that stage.
C10_BuiltinStagesValid ==
    (workflow = BuiltinStages /\ dependencies = BuiltinDependencies)
        => StageDefinitionInvariant(workflow, dependencies)

(***************************************************************************)
(* Claims about failures in execute_workflow (checked under Spec)          *)
(***************************************************************************)
\* the dependency check of u raised
MissingDependency(u) == unit_pc[u] = "failed" /\ ~DependenciesPresent(u)

\* agent.analyze of u has been called
RunInvoked(u) ==
    \/ unit_pc[u] \in {"analyzing", "feedback", "correcting", "done"}
    \/ unit_pc[u] = "failed" /\ DependenciesPresent(u)

\* v stands after u in the plan: in a later stage, or later in u's stage
Later(u, v) ==
    \/ StageOf(v) > StageOf(u)
    \/ StageOf(v) = StageOf(u) /\ PlaceOf(v) > PlaceOf(u)

FailedInline(u) == unit_pc[u] = "failed" /\ Sequential(StageOf(u))

\* C12: when a unit of a sequential stage fails, execute_workflow raises, the
\* outputs of the units of that stage that had completed remain in
\* input_data, and no later unit of the stage or of a later stage is started.
C12_SequentialFailureKeepsProgress ==
    \A u \in Units : FailedInline(u) =>
        /\ wf_pc = "raised"
        /\ \A v \in Members(StageOf(u)) : PlaceOf(v) < PlaceOf(u) =>
              /\ unit_pc[v] = "done"
              /\ Contains(input_data, unit_result[v])
        /\ \A v \in Units : Later(u, v) => unit_pc[v] = "pending"

\* qa raised in analyze after parser had completed: parser's corrected
\* output is still in input_data
C12_Witness ==
    /\ workflow[1].agents = <<"parser", "qa">>
    /\ unit_pc["qa"] = "failed"
    /\ DependenciesPresent("qa")
    /\ unit_result["parser"] = OutputOf("parser", TRUE)
    /\ input_data["metadata"] = Payload("parser", TRUE)
    /\ unit_pc["analyst"] = "pending"

\* C13: when a unit of a parallel stage fails, the error reaches the caller
\* only after every sibling has finished: when execute_workflow raises, no
\* unit of the stage is still running.
C13_ParallelFailureWaitsForSiblings ==
    \A i \in DOMAIN workflow :
        (Parallel(i) /\ stage_idx = i /\ wf_pc = "raised") =>
            \A v \in Members(i) : unit_pc[v] \notin Executing

(***************************************************************************)
(* Claims about the supervisor's run status and histories (checked under   *)
(* SupervisorSpec)                                                         *)
(***************************************************************************)
\* coordinate_analysis has raised to its caller
RunFailed == coord_outcome.kind = "raised"

\* the stage whose _coordinate_* call was being awaited
AwaitedStage == InitialStages[phase]

\* C14: whenever a unit fails, by an error or by its timeout, workflow_status
\* has status 'failed' and current_stage equal to the stage of the failing unit
\* by the time the failure is re-raised to the caller.
C14_FailureRecordedInStatus ==
    RunFailed =>
        /\ workflow_status.status = "failed"
        /\ workflow_status.current_stage = AwaitedStage

\* C15: the failure the caller of a failed run receives is a structured
\* object that names the failing stage and carries the underlying cause,
\* never the bare exception.
C15_StructuredFailure ==
    RunFailed =>
        /\ coord_outcome.stage = AwaitedStage
        /\ coord_outcome.exception \in PhaseErrors

\* C19: workflow_status is updated on every stage boundary: completed_stages
\* followed by pending_stages is the initial list of six stages,
\* completed_stages holds exactly the stages that have finished, and
\* current_stage is the next pending stage.
C19_StatusFollowsStages ==
    workflow_status.status # "unset" =>
        /\ workflow_status.completed_stages \o workflow_status.pending_stages
              = InitialStages
        /\ workflow_status.completed_stages = phases_done
        /\ workflow_status.pending_stages # << >> =>
              workflow_status.current_stage = Head(workflow_status.pending_stages)

\* h2 is h1, or h1 with one record appended
SameOrOneAppended(h1, h2) ==
    \/ h2 = h1
    \/ /\ Len(h2) = Len(h1) + 1
       /\ SubSeq(h2, 1, Len(h1)) = h1

C18_UnitRunsAtMostOnce ==
    /\ \A u \in Units :
          /\ invoked[u] <= 1
          /\ RunInvoked(u) <=> invoked[u] = 1
    /\ wf_pc = "returned" => \A u \in Units : invoked[u] = 1 /\ unit_pc[u] = "done"

\* the run has returned with every unit invoked, and corrected, once
C18_Witness ==
    /\ wf_pc = "returned"
    /\ \A u \in Units : invoked[u] = 1 /\ unit_result[u] = OutputOf(u, TRUE)

(***************************************************************************)
(* Claims about the timeouts of concurrent units (checked under            *)
(* CoordinatorSpec)                                                        *)
(***************************************************************************)
\* when unit u's own budget runs out
Deadline(u) == tc_start[u] + Timeout(u)

\* C16: when two units run concurrently, each under its own timeout budget,
\* every unit's timeout is enforced independently: while a unit runs, an
\* alarm is pending that is due no later than the unit's own deadline (no
\* sibling replaces or disarms it), no unit runs on past its deadline, and
\* no unit that took longer than its budget is reported as a success.
C16_TimeoutsIndependent ==
    \A u \in CoUnits :
        /\ tc_pc[u] = "running" =>
              /\ alarm # 0 /\ alarm <= Deadline(u)
              /\ clock <= Deadline(u)
        /\ (tc_pc[u] = "returned" /\ tc_result[u].success) =>
              tc_result[u].execution_time <= Timeout(u)

(***************************************************************************)
(* Claims about the global run budget (checked under RunClockSpec)         *)
(***************************************************************************)
\* the time the run has taken since initialize_workflow set 'start_time'
Elapsed == now - workflow_status.start_time

\* the run is in progress and has used more than the global budget
OverBudget == sup_pc = "coordinating" /\ Elapsed > GlobalBudget

\* C17: once the elapsed time of a run exceeds the global budget the remaining
\* plan is cancelled: no further _coordinate_* call is started and the run
\* does not complete; a run that ended over its budget is marked failed.
C17_GlobalBudgetCancelsPlan ==
    /\ [][OverBudget =>
             /\ sup_pc' = "coordinating" => phase' = phase
             /\ coord_outcome'.kind # "returned"]_vars
    /\ []((sup_pc = "finished" /\ Elapsed > GlobalBudget) =>
             workflow_status.status = "failed")

(***************************************************************************)
(* Claims about provide_feedback (checked under SupervisorSpec)            *)
(***************************************************************************)
\* records i and j of feedback_history were built from the same stage and
\* the same results
SameFeedbackInput(i, j) ==
    /\ feedback_history[i].stage = feedback_history[j].stage
    /\ feedback_history[i].evaluation = feedback_history[j].evaluation

\* C21: evaluating the same stage output twice yields identical records: two
\* provide_feedback calls with the same stage and results return records
\* equal in every field, whatever happened before or between them.
C21_SameInputSameRecord ==
    \A i, j \in DOMAIN feedback_history :
        SameFeedbackInput(i, j) => feedback_history[i] = feedback_history[j]

(***************************************************************************)
(* Claims about the supervisor's feedback inside _execute_agent (checked   *)
(* under Spec)                                                             *)
(***************************************************************************)
\* the result _execute_agent(u) hands back when its feedback was fb
HandedBack(u) == OutputOf(u, feedback[u].needs_correction)

\* u's result is an element of a list recorded in stage_results
Recorded(u) ==
    /\ workflow[StageOf(u)].name \in DOMAIN stage_results
    /\ PlaceOf(u) \in DOMAIN stage_results[workflow[StageOf(u)].name]

\* C22: for every executed unit the supervisor's feedback is obtained after
\* the unit's run and before the output is handed back: no output is merged
\* into input_data, appended to results or recorded in stage_results before it
\* has been evaluated, and when the feedback says needs_correction the
\* corrected result, not the original, is what is merged and recorded.
C22_FeedbackBeforeMerge ==
    \A u \in Units :
        /\ feedback[u].received => invoked[u] = 1 /\ unit_pc[u] \in {"correcting", "done"}
        /\ unit_pc[u] = "done" => feedback[u].received /\ unit_result[u] = HandedBack(u)
        /\ u \in merged =>
              /\ feedback[u].received
              /\ Contains(input_data, HandedBack(u))
        /\ Recorded(u) =>
              /\ feedback[u].received
              /\ stage_results[workflow[StageOf(u)].name][PlaceOf(u)] = HandedBack(u)

\* the run has returned; parser's corrected result was merged and recorded,
\* qa's was accepted as it was, and a unit of the parallel stage was corrected
C22_Witness ==
    /\ wf_pc = "returned"
    /\ feedback["parser"].needs_correction /\ "parser" \in merged
    /\ Recorded("parser") /\ Contains(input_data, OutputOf("parser", TRUE))
    /\ feedback["qa"].received /\ ~feedback["qa"].needs_correction
    /\ Contains(input_data, OutputOf("qa", FALSE))
    /\ feedback["stats"].needs_correction /\ Recorded("stats")

(***************************************************************************)
(* Claims about verify_outputs (checked under VerifierSpec)                *)
(***************************************************************************)
\* the required paths that do not exist under output_dir
MissingPaths == Range(RequiredFiles) \ output_dir

\* C23: verify_outputs returns True exactly when all four required paths
\* exist under the output directory; when any is missing it returns False
\* without raising and reports exactly the set of missing paths.
C23_VerifyOutputs ==
    /\ vo_pc \in {"idle", "for_file", "returned"}
    /\ vo_pc = "returned" =>
          /\ vo_return = (MissingPaths = {})
          /\ Range(missing_files) = MissingPaths
          /\ Len(missing_files) = Cardinality(MissingPaths)
          /\ vo_return => vo_warnings = << >>
          /\ ~vo_return => vo_warnings[Len(vo_warnings)] = missing_files

\* False was returned for a directory that lacks two of the four paths and
\* holds a path that is not required
C23_Witness ==
    /\ vo_pc = "returned"
    /\ ~vo_return
    /\ Cardinality(MissingPaths) = 2
    /\ "report/report.pdf" \in output_dir
    /\ Len(vo_warnings) = 3

(***************************************************************************)
(* Claims about the message channels (checked under ChannelSpec)           *)
(***************************************************************************)
\* C24: the messages sent on a channel are dequeued from that channel in the
\* order they were sent, each one once, whatever happens on the other three
\* channels: on every channel the messages handed to it are, in order, the
\* ones already dequeued followed by the ones still queued.
C24_ChannelsDeliverInOrder ==
    \A c \in DOMAIN communication_channels :
        handed[c] = dequeued[c] \o communication_channels[c]

(***************************************************************************)
(* Claims about the set-up of the agents (checked under SetupSpec)         *)
(***************************************************************************)
\* C25: every agent that supports initialize has it called exactly once per
\* run during workflow initialization, before its first run: never more than
\* once, and once by the time initialize_workflow has returned; an agent
\* without initialize is left alone.
C25_InitializeOnce ==
    \A a \in Range(AgentOrder) :
        /\ initialize_calls[a] <= 1
        /\ a \notin initializable => initialize_calls[a] = 0
        /\ (iw_pc = "returned" /\ a \in initializable) => initialize_calls[a] = 1

(***************************************************************************)
(* Claims about AgentCoordinator.coordinate_analysis and the alarm of      *)
(* run_with_timeout (checked under CoordinatorSpec)                        *)
(***************************************************************************)
\* unit u's run_with_timeout call has been made
CoStarted(u) == tc_pc[u] # "none"

\* unit u's call has returned a successful AgentResult
Succeeded(u) == tc_pc[u] = "returned" /\ tc_result[u].success

\* unit u's call has returned a failed AgentResult
Failed(u) == tc_pc[u] = "returned" /\ ~tc_result[u].success

\* coordinate_analysis has returned its results
CoordinateReturned == co_entry = "coordinate_analysis" /\ co_pc = "returned"

\* C26: in coordinate_analysis the analyst is started only after the parser
\* and QA have both returned a successful result.  The run ends in one of
\* three ways: by a parser failure, with no other unit started; by a QA
\* failure, without the analyst started; or after the analyst has run, which a
\* researcher failure alone does not prevent.
C26_AnalystAfterParserAndQa ==
    co_entry = "coordinate_analysis" =>
        /\ CoStarted("analyst") => Succeeded("parser") /\ Succeeded("qa")
        /\ (CoStarted("qa") \/ CoStarted("researcher")) => Succeeded("parser")
        /\ CoordinateReturned =>
              \/ Failed("parser") /\ \A u \in CoUnits \ {"parser"} : ~CoStarted(u)
              \/ Succeeded("parser") /\ Failed("qa") /\ ~CoStarted("analyst")
              \/ Succeeded("parser") /\ Succeeded("qa") /\ tc_pc["analyst"] = "returned"

\* the calls in which the units run one after another
OneAfterAnother == co_entry \in {"coordinate_analysis", "sequence"}

\* unit u's run_with_timeout call returns in this step
Returns(u) == tc_pc[u] = "running" /\ tc_pc'[u] = "returned"

\* C30: run_with_timeout always disarms the alarm before it returns, whether
\* the unit succeeded, timed out or raised another error: no alarm is pending
\* once no call is running.  When the units run one after another the alarm
\* pending while a unit runs is the one armed for that unit, and a unit
\* reported as timed out has used up its own budget.
C30_AlarmDisarmedOnReturn ==
    /\ [](/\ (\A u \in CoUnits : tc_pc[u] # "running") => alarm = 0
          /\ \A u \in CoUnits :
                (OneAfterAnother /\ tc_pc[u] = "running") => alarm = Deadline(u))
    /\ [][\A u \in CoUnits :
             Returns(u) =>
                /\ alarm' = 0
                /\ (OneAfterAnother /\ tc_result'[u].error = "Timeout") =>
                      clock >= Deadline(u)
         ]_vars

\* the parser was reported as timed out and the analyst, started after it,
\* runs under its own alarm
C30_Witness ==
    /\ co_entry = "sequence"
    /\ tc_pc["parser"] = "returned"
    /\ tc_result["parser"].error = "Timeout"
    /\ tc_pc["analyst"] = "running"
    /\ alarm = Deadline("analyst")
    /\ clock > tc_start["analyst"]

(***************************************************************************)
(* Claims about the order of the verdicts and about the recorded reviews   *)
(* (checked under ReviewSpec)                                              *)
(***************************************************************************)
\* needs_major_revision < needs_minor_revision < approved
Rank(v) ==
    CASE v = "needs_major_revision" -> 0
      [] v = "needs_minor_revision" -> 1
      [] v = "approved" -> 2
      [] OTHER -> -1

\* the rank of the verdict _determine_approval_status gives to the scores
\* a/ScoreDen, q/ScoreDen and u/ScoreDen
VerdictRanks ==
    [a \in 0..ScoreDen |-> [q \in 0..ScoreDen |-> [u \in 0..ScoreDen |->
        Rank(ApprovalOf(FinalScore(CalculateScore(a), CalculateScore(q),
                                   CalculateScore(u))))]]]

\* C27: the verdict is monotone in each score: raising any one of auto_score,
\* quality_score or user_score while the other two stay fixed never lowers the
\* verdict, and therefore a review with user feedback never gets a better
\* verdict than the same review without.
C27_VerdictMonotone ==
    Reviewed =>
        LET a == auto_review
            q == quality_evaluation
            u == UserNumerator
            r == Rank(scores.approval_status)
        IN  /\ r = VerdictRanks[a][q][u]
            /\ \A k \in a..ScoreDen : VerdictRanks[k][q][u] >= r
            /\ \A k \in q..ScoreDen : VerdictRanks[a][k][u] >= r
            /\ \A k \in u..ScoreDen : VerdictRanks[a][q][k] >= r
            /\ r <= Rank(DetermineApprovalStatus(a, q, NoFeedback).approval_status)

\* a review with feedback got a verdict below the one it gets without
\* feedback, and below the one a higher auto_score gives
C27_Witness ==
    /\ Reviewed
    /\ Truthy(user_feedback)
    /\ Rank(scores.approval_status) <
          Rank(DetermineApprovalStatus(auto_review, quality_evaluation,
                                       NoFeedback).approval_status)
    /\ \E k \in auto_review..ScoreDen :
          VerdictRanks[k][quality_evaluation][UserNumerator]
              > Rank(scores.approval_status)

\* C28: every ReviewResult that review_report returns or stores in
\* report_reviews has approval_status approved, needs_minor_revision or
\* needs_major_revision; the initial value 'pending' is never the approval
\* status of a returned or recorded review.
C28_NoPendingVerdictRecorded ==
    /\ \A i \in DOMAIN report_reviews :
          report_reviews[i].approval_status
              \in {"approved", "needs_minor_revision", "needs_major_revision"}
    /\ Reviewed =>
          /\ review_results.approval_status
                \in {"approved", "needs_minor_revision", "needs_major_revision"}
          /\ report_reviews[Len(report_reviews)] = review_results

\* a review has been recorded and returned with a verdict, its 'status' still
\* 'pending'
C28_Witness ==
    /\ Reviewed
    /\ Len(report_reviews) = 1
    /\ report_reviews[1].status = "pending"
    /\ report_reviews[1].approval_status = "needs_major_revision"

(***************************************************************************)
(* Claims about the built-in dependency map (checked under Spec)           *)
(***************************************************************************)
\* every dependency names a unit declared in the map
Closed(deps) == \A u \in DOMAIN deps : deps[u] \subseteq DOMAIN deps

\* the units reached from the set s in at most n further steps along deps
RECURSIVE ReachedFrom(_, _, _)
ReachedFrom(deps, s, n) ==
    IF n = 0 THEN s
    ELSE ReachedFrom(deps, s \cup UNION {deps[v] : v \in s \cap DOMAIN deps}, n - 1)

\* the units u depends on, directly or transitively
TransitiveDependencies(deps, u) ==
    ReachedFrom(deps, deps[u], Cardinality(DOMAIN deps))

\* no unit depends on itself, directly or transitively
Acyclic(deps) == \A u \in DOMAIN deps : u \notin TransitiveDependencies(deps, u)

\* the places <<stage, position>> of the stage list that hold unit u
PlacesOf(stages, u) ==
    {p \in UNION {{<<i, j>> : j \in DOMAIN stages[i].agents} : i \in DOMAIN stages} :
        stages[p[1]].agents[p[2]] = u}

\* C29: the built-in dependency map is closed and acyclic and matches the
\* built-in workflow: every dependency names a unit declared in the map, no
\* unit depends on itself directly or transitively, and every unit of the map
\* is a member of exactly one stage of the built-in stage list.
C29_BuiltinMapClosedAcyclic ==
    (workflow = BuiltinStages /\ dependencies = BuiltinDependencies) =>
        /\ Closed(dependencies)
        /\ Acyclic(dependencies)
        /\ \A u \in DOMAIN dependencies :
              Cardinality(PlacesOf(workflow, u)) = 1

\* the built-in plan is run against the built-in map: the units of the first
\* stage have passed their dependency checks and the analyst has run
C29_Witness ==
    /\ workflow = BuiltinStages
    /\ dependencies = BuiltinDependencies
    /\ merged = {"parser", "qa"}
    /\ unit_pc["analyst"] = "done"
    /\ TransitiveDependencies(dependencies, "report") = Units \ {"report"}

====
